---- MODULE Spec2Model ----
(***************************************************************************)
(* Model of the infra-health-tool: src/cli.py (main and its helpers),      *)
(* src/log_parser.py (analyze_logs) and src/reporter.py (generate_report). *)
(*                                                                         *)
(* Numbers: a usage percent or a threshold is kept in tenths of a percent  *)
(* (800 is 80.0), so that the comparisons of _status and the one-decimal   *)
(* formatting of _fmt_percent are exact.                                   *)
(* Optional[...] values are sequences of length 0 (None) or 1.             *)
(* Text lines and keywords are sequences of one-character strings.         *)
(***************************************************************************)
EXTENDS Integers, Sequences, FiniteSets, TLC

VARIABLES
    \* ---- one run of main (cli.py) ----
    pc,             \* position of main
    host,           \* what collect_system_metrics returns on this host
    cfg,            \* the threshold options on the command line
    logenv,         \* the logs directory main scans
    args,           \* argparse namespace
    system_metrics, \* Optional: the sampled metrics
    percents,       \* cpu_percent, mem_percent, disk_percent
    log_analysis,   \* Optional: result of analyze_logs
    total_matches,
    evaluations,
    report_path,    \* Optional
    stdout,         \* what main printed
    exit_code,      \* Optional: the process exit code
    prev_exit,      \* Optional: exit code of the previous run on the same inputs
    \* ---- the output directory (reporter.py) ----
    dir_exists,
    files,          \* file name -> report written in it
    clock,          \* wall clock, in ticks
    written,        \* history: one <<file name, report>> per generate_report call
    \* ---- analyze_logs, line by line (log_parser.py) ----
    lpc,            \* position of analyze_logs
    ldir,           \* state of the directory it is given
    result,         \* its result dictionary
    seen,           \* history: the raw lines it has processed
    nentries        \* directory entries visited so far

mainvars == <<pc, host, cfg, logenv, args, system_metrics, percents, log_analysis,
              total_matches, evaluations, report_path, stdout, exit_code, prev_exit>>
fsvars == <<dir_exists, files, clock, written>>
logvars == <<lpc, ldir, result, seen, nentries>>
vars == <<mainvars, fsvars, logvars>>

None == << >>
Some(x) == <<x>>

\* ------------------------------------------------------------------ bounds
\* clock ticks per second (the file name has second resolution)
TicksPerSecond == 2
\* last clock tick of the persist specification
MaxClock == 3
\* generate_report calls of the persist specification
MaxCalls == 3
\* lines read by one analyze_logs call of the line-by-line specification
MaxLines == 4
\* directory entries visited by one analyze_logs call
MaxEntries == 2

\* ----------------------------------------------------------- text helpers
Whitespace == {" ", "\t", "\n"}

RECURSIVE LStrip(_)
LStrip(s) ==
    IF Len(s) > 0 /\ s[1] \in Whitespace THEN LStrip(Tail(s)) ELSE s

RECURSIVE RStrip(_)
RStrip(s) ==
    IF Len(s) > 0 /\ s[Len(s)] \in Whitespace
    THEN RStrip(SubSeq(s, 1, Len(s) - 1))
    ELSE s

\* str.strip()
Strip(s) == RStrip(LStrip(s))

\* p in s, for strings
Contains(p, s) ==
    \E i \in 0..(Len(s) - Len(p)) : SubSeq(s, i + 1, i + Len(p)) = p

\* ------------------------------------------------------------ log_parser.py
DEFAULT_PATTERNS ==
    << <<"E","R","R","O","R">>,
       <<"W","A","R","N","I","N","G">>,
       <<"W","A","R","N">>,
       <<"F","A","I","L","E","D">>,
       <<"T","I","M","E","O","U","T">>,
       <<"E","X","C","E","P","T","I","O","N">> >>

PatternSet == {DEFAULT_PATTERNS[i] : i \in 1..Len(DEFAULT_PATTERNS)}

MaxExamples == 3

\* the result dictionary analyze_logs starts from
InitResult(dir) ==
    [logs_dir |-> dir,
     files_scanned |-> 0,
     problem_counts |-> [p \in PatternSet |-> 0],
     examples |-> [p \in PatternSet |-> << >>]]

\* the body of "for p in patterns" for one pattern
MatchPattern(res, ls, p) ==
    IF Contains(p, ls)
    THEN [res EXCEPT !.problem_counts[p] = @ + 1,
                     !.examples[p] = IF Len(@) < MaxExamples THEN Append(@, ls) ELSE @]
    ELSE res

RECURSIVE ScanPatterns(_, _, _)
ScanPatterns(res, ls, i) ==
    IF i > Len(DEFAULT_PATTERNS) THEN res
    ELSE ScanPatterns(MatchPattern(res, ls, DEFAULT_PATTERNS[i]), ls, i + 1)

\* variant: the line is matched and kept as read, without strip()
ProcessLineUnstripped(res, line) == ScanPatterns(res, line, 1)

\* the body of "for line in f"
ProcessLine(res, line) == ScanPatterns(res, Strip(line), 1)

RECURSIVE ScanLines(_, _)
ScanLines(res, lines) ==
    IF lines = << >> THEN res
    ELSE ScanLines(ProcessLine(res, Head(lines)), Tail(lines))

\* the body of "for filename in os.listdir(logs_dir)" for one entry:
\* kind "notfile" fails os.path.isfile, "unreadable" raises in open (caught),
\* "file" is read to its end.
ScanEntry(res, e) ==
    IF e.kind = "notfile" THEN res
    ELSE LET counted == [res EXCEPT !.files_scanned = @ + 1]
         IN IF e.kind = "unreadable" THEN counted ELSE ScanLines(counted, e.lines)

RECURSIVE ScanEntries(_, _)
ScanEntries(res, entries) ==
    IF entries = << >> THEN res
    ELSE ScanEntries(ScanEntry(res, Head(entries)), Tail(entries))

\* analyze_logs(logs_dir): [raised, value]. A directory that does not exist
\* fails os.path.isdir; one that exists but cannot be listed passes it and
\* os.listdir raises PermissionError outside any try.
analyze_logs(env) ==
    IF env.dir = "absent" THEN [raised |-> FALSE, value |-> InitResult(env.path)]
    ELSE IF env.dir = "unlistable" THEN [raised |-> TRUE, value |-> InitResult(env.path)]
    ELSE [raised |-> FALSE, value |-> ScanEntries(InitResult(env.path), env.entries)]

\* ------------------------------------------------------------------ cli.py
Sections == {"cpu", "memory", "disk"}

\* float(value) on a string
ParseFloat(s) ==
    CASE s = "80.0" -> Some(800)
      [] s = "95"   -> Some(950)
      [] OTHER      -> None

\* A value found under usage_percent: t is the Python type of the value
\* ("none", "num", "str", "obj"), n the number, s the string.
\* variant: a value that does not convert becomes 0.0 instead of None
AsFloatOrZero(value) ==
    IF value.t = "num" THEN Some(value.n)
    ELSE IF value.t = "str" /\ ParseFloat(value.s) # None THEN ParseFloat(value.s)
    ELSE Some(0)

_as_float(value) ==
    IF value.t = "none" THEN None
    ELSE IF value.t = "num" THEN Some(value.n)
    ELSE IF value.t = "str" THEN ParseFloat(value.s)   \* ValueError -> None
    ELSE None                                          \* TypeError -> None

\* A section of the metrics: kind "dict" or "notdict"; has says whether the
\* dict holds usage_percent, val is the value under it.
_get_usage_percent(metrics, section) ==
    IF section \notin DOMAIN metrics THEN None
    ELSE IF metrics[section].kind # "dict" THEN None
    ELSE IF ~metrics[section].has THEN _as_float([t |-> "none", n |-> 0, s |-> ""])
    ELSE _as_float(metrics[section].val)

\* variant: a value equal to the threshold is still OK
StatusExclusive(percent, warn_threshold) ==
    IF percent = None THEN "N/A"
    ELSE IF percent[1] <= warn_threshold THEN "OK" ELSE "WARN"

_status(percent, warn_threshold) ==
    IF percent = None THEN "N/A"
    ELSE IF percent[1] < warn_threshold THEN "OK" ELSE "WARN"

\* f"{percent:.1f}%": the whole part and the one decimal, or N/A
_fmt_percent(percent) ==
    IF percent = None THEN [na |-> TRUE, whole |-> 0, tenth |-> 0]
    ELSE [na |-> FALSE, whole |-> percent[1] \div 10, tenth |-> percent[1] % 10]

\* dict.get(key) of a dictionary of strings
GetStr(d, k) == IF k \in DOMAIN d THEN d[k] ELSE "None"

\* lines 112-117 of main: total_matches read from the analysis
TotalMatches(analysis) ==
    IF "total_matches" \in DOMAIN analysis /\ analysis["total_matches"] \in Int
    THEN analysis["total_matches"]
    ELSE IF "total_problems_found" \in DOMAIN analysis
            /\ analysis["total_problems_found"] \in Int
    THEN analysis["total_problems_found"]
    ELSE 0

\* lines 165-179 of main: the exit code of a run that reached the summary
ExitCode(pcts, evals) ==
    IF pcts.cpu = None \/ pcts.memory = None \/ pcts.disk = None THEN 2
    ELSE IF GetStr(evals, "cpu_status") = "WARN"
            \/ GetStr(evals, "mem_status") = "WARN"
            \/ GetStr(evals, "disk_status") = "WARN"
    THEN 1
    ELSE 0

\* ------------------------------------------------------------- reporter.py
\* datetime.now().strftime('%Y-%m-%d_%H-%M-%S'): the clock cut to the second
Timestamp(now) == now \div TicksPerSecond

\* health_report_<timestamp>.json; both clock reads of generate_report
\* (lines 102 and 112) fall in one tick
FileName(now) == Timestamp(now)

BuildReport(now, metrics, analysis, thresholds, evals) ==
    [timestamp |-> Timestamp(now),
     system_metrics |-> metrics,
     log_analysis |-> analysis,
     thresholds |-> thresholds,
     evaluations |-> evals]

\* open(report_file, "w") and json.dump: creates the file or truncates it
WriteFile(fs, name, content) ==
    [f \in DOMAIN fs \cup {name} |-> IF f = name THEN content ELSE fs[f]]

\* generate_report: [dir_exists, files, path, report]. mkdir(parents=True,
\* exist_ok=True) never fails on an existing directory.
generate_report(fs, now, metrics, analysis, thresholds, evals) ==
    LET report == BuildReport(now, metrics, analysis, thresholds, evals)
    IN [dir_exists |-> TRUE,
        files |-> WriteFile(fs, FileName(now), report),
        path |-> FileName(now),
        report |-> report]

\* ------------------------------------------------------------------ inputs
NoVal == [t |-> "none", n |-> 0, s |-> ""]
Num(v) == [t |-> "num", n |-> v, s |-> ""]
Str(x) == [t |-> "str", n |-> 0, s |-> x]
Obj == [t |-> "obj", n |-> 0, s |-> ""]

NoKey == [kind |-> "dict", has |-> FALSE, val |-> NoVal]
Usage(val) == [kind |-> "dict", has |-> TRUE, val |-> val]
NotDict == [kind |-> "notdict", has |-> FALSE, val |-> NoVal]

\* the shapes a section of the metrics takes
Blocks == {NoKey, Usage(Str("80.0")), Usage(Num(100)), Usage(Num(950))}

\* shapes taken by at most one section of a metrics dictionary
RareBlocks == {NotDict, Usage(NoVal), Usage(Obj), Usage(Str("abc"))}

\* a metrics dictionary: each section present or missing
Hosts ==
    {h \in UNION {[S -> Blocks \cup RareBlocks] : S \in SUBSET Sections} :
        Cardinality({x \in DOMAIN h : h[x] \in RareBlocks}) <= 1}

\* --cpu-warn, --mem-warn, --disk-warn values given on the command line
WarnValues == {0, 800, 1500}

\* critical: the resource a critical threshold is given for, or "none"
Cfgs == [cpu_warn : WarnValues, mem_warn : WarnValues, disk_warn : WarnValues,
         critical : {"none"} \cup Sections]

\* log lines
LineError == <<" ", "E","R","R","O","R", " ", "x", "\n">>
LineWarning == <<"W","A","R","N","I","N","G", "\n">>
LineWarn == <<"\t", "W","A","R","N", " ", "\n">>
LineLower == <<"e","r","r","o","r", "\n">>
LineTwo == <<"F","A","I","L","E","D", " ", "T","I","M","E","O","U","T">>
LineBlank == <<" ", "\n">>

LinePool == {LineError, LineWarning, LineWarn, LineLower, LineTwo, LineBlank}

File(lines) == [kind |-> "file", lines |-> lines]
Unreadable == [kind |-> "unreadable", lines |-> << >>]
NotFile == [kind |-> "notfile", lines |-> << >>]

\* the logs directories main is run on
LogEnvs ==
    {[path |-> "logs", dir |-> "absent", entries |-> << >>],
     [path |-> "logs", dir |-> "unlistable", entries |-> << >>],
     [path |-> "logs", dir |-> "listable",
      entries |-> <<NotFile, File(<<LineError, LineLower, LineWarning>>), Unreadable,
                    File(<<LineTwo>>)>>]}

\* ------------------------------------------------------------- main, cli.py
DefaultArgs ==
    [json_only |-> FALSE, quiet |-> FALSE, cpu_warn |-> 800, mem_warn |-> 800, disk_warn |-> 900]

NoPercents == [cpu |-> None, memory |-> None, disk |-> None]
NoEvaluations == [k \in {} |-> ""]

RunStart ==
    /\ pc = "start"
    /\ args = DefaultArgs
    /\ system_metrics = None
    /\ percents = NoPercents
    /\ log_analysis = None
    /\ total_matches = 0
    /\ evaluations = NoEvaluations
    /\ report_path = None
    /\ stdout = << >>
    /\ exit_code = None

FsInit ==
    /\ dir_exists = FALSE
    /\ files = [f \in {} |-> 0]
    /\ clock = 0
    /\ written = << >>

LogIdle ==
    /\ lpc = "idle"
    /\ ldir = "absent"
    /\ result = InitResult("logs")
    /\ seen = << >>
    /\ nentries = 0

Init ==
    /\ host \in Hosts
    /\ cfg \in Cfgs
    /\ logenv \in LogEnvs
    /\ prev_exit = None
    /\ RunStart
    /\ FsInit
    /\ LogIdle

\* lines 90-97: an option build_parser does not define makes parse_args print
\* a usage error and exit with status 2.
ParseArgs ==
    /\ pc = "start"
    /\ \E j \in BOOLEAN, q \in BOOLEAN :
        IF cfg.critical # "none"
        THEN /\ pc' = "done"
             /\ exit_code' = Some(2)
             /\ UNCHANGED <<args, stdout>>
        ELSE /\ args' = [json_only |-> j, quiet |-> q, cpu_warn |-> cfg.cpu_warn,
                         mem_warn |-> cfg.mem_warn, disk_warn |-> cfg.disk_warn]
             /\ stdout' = IF ~q THEN <<[tag |-> "start"]>> ELSE << >>
             /\ pc' = "collect"
             /\ UNCHANGED exit_code
    /\ UNCHANGED <<host, cfg, logenv, system_metrics, percents, log_analysis, total_matches,
                   evaluations, report_path, prev_exit, fsvars, logvars>>

\* lines 99-105
CollectMetrics ==
    /\ pc = "collect"
    /\ system_metrics' = Some(host)
    /\ percents' = [cpu |-> _get_usage_percent(host, "cpu"),
                    memory |-> _get_usage_percent(host, "memory"),
                    disk |-> _get_usage_percent(host, "disk")]
    /\ pc' = "logs"
    /\ UNCHANGED <<host, cfg, logenv, args, log_analysis, total_matches, evaluations,
                   report_path, stdout, exit_code, prev_exit, fsvars, logvars>>

\* lines 107-117; an exception of analyze_logs ends the process with a
\* traceback and status 1.
AnalyzeLogs ==
    /\ pc = "logs"
    /\ LET r == analyze_logs(logenv)
       IN IF r.raised
          THEN /\ pc' = "crashed"
               /\ exit_code' = Some(1)
               /\ UNCHANGED <<log_analysis, total_matches>>
          ELSE /\ log_analysis' = Some(r.value)
               /\ total_matches' = TotalMatches(r.value)
               /\ pc' = "evaluate"
               /\ UNCHANGED exit_code
    /\ UNCHANGED <<host, cfg, logenv, args, system_metrics, percents, evaluations,
                   report_path, stdout, prev_exit, fsvars, logvars>>

\* lines 119-139
EvaluateAndReport ==
    /\ pc = "evaluate"
    /\ LET evals == [k \in {"cpu_status", "memory_status", "disk_status"} |->
                        CASE k = "cpu_status" -> _status(percents.cpu, args.cpu_warn)
                          [] k = "memory_status" -> _status(percents.memory, args.mem_warn)
                          [] k = "disk_status" -> _status(percents.disk, args.disk_warn)]
           thresholds == [cpu_warn |-> args.cpu_warn, mem_warn |-> args.mem_warn,
                          disk_warn |-> args.disk_warn]
           g == generate_report(files, clock, system_metrics[1], log_analysis[1],
                                thresholds, evals)
       IN /\ evaluations' = evals
          /\ dir_exists' = g.dir_exists
          /\ files' = g.files
          /\ report_path' = Some(g.path)
    /\ pc' = "output"
    /\ UNCHANGED <<host, cfg, logenv, args, system_metrics, percents, log_analysis,
                   total_matches, stdout, exit_code, prev_exit, clock, written, logvars>>

Summary ==
    [tag |-> "summary",
     cpu |-> _fmt_percent(percents.cpu), cpu_status |-> evaluations["cpu_status"],
     memory |-> _fmt_percent(percents.memory), memory_status |-> evaluations["memory_status"],
     disk |-> _fmt_percent(percents.disk), disk_status |-> evaluations["disk_status"],
     log_issues |-> total_matches]

Saved == [tag |-> "saved", path |-> report_path[1]]

\* lines 141-179
Output ==
    /\ pc = "output"
    /\ IF args.json_only
       THEN /\ stdout' = IF ~args.quiet THEN Append(stdout, Saved) ELSE stdout
            /\ exit_code' = Some(0)
       ELSE /\ stdout' = IF ~args.quiet THEN stdout \o <<Summary, Saved>> ELSE stdout
            /\ exit_code' = Some(ExitCode(percents, evaluations))
    /\ pc' = "done"
    /\ UNCHANGED <<host, cfg, logenv, args, system_metrics, percents, log_analysis,
                   total_matches, evaluations, report_path, prev_exit, fsvars, logvars>>

\* the tool is run again on the same host, thresholds and logs directory
Rerun ==
    /\ pc \in {"done", "crashed"}
    /\ prev_exit' = exit_code
    /\ pc' = "start"
    /\ args' = DefaultArgs
    /\ system_metrics' = None
    /\ percents' = NoPercents
    /\ log_analysis' = None
    /\ total_matches' = 0
    /\ evaluations' = NoEvaluations
    /\ report_path' = None
    /\ stdout' = << >>
    /\ exit_code' = None
    /\ UNCHANGED <<host, cfg, logenv, fsvars, logvars>>

Next == ParseArgs \/ CollectMetrics \/ AnalyzeLogs \/ EvaluateAndReport \/ Output \/ Rerun

Spec == Init /\ [][Next]_vars

\* ------------------------------------------- analyze_logs, line by line
InitLogs ==
    /\ host = [x \in {} |-> NoKey]
    /\ cfg = [cpu_warn |-> 800, mem_warn |-> 800, disk_warn |-> 900, critical |-> "none"]
    /\ logenv = [path |-> "logs", dir |-> "absent", entries |-> << >>]
    /\ prev_exit = None
    /\ RunStart
    /\ FsInit
    /\ lpc = "call"
    /\ ldir \in {"absent", "unlistable", "listable"}
    /\ result = InitResult("logs")
    /\ seen = << >>
    /\ nentries = 0

\* lines 45-56: the result is built, then os.path.isdir and os.listdir
LCall ==
    /\ lpc = "call"
    /\ result' = InitResult("logs")
    /\ lpc' = CASE ldir = "absent" -> "returned"
                [] ldir = "unlistable" -> "raised"
                [] OTHER -> "listing"
    /\ UNCHANGED <<ldir, seen, nentries, mainvars, fsvars>>

\* lines 56-67: the next directory entry, of any kind
LNextEntry ==
    /\ lpc = "listing"
    /\ nentries < MaxEntries
    /\ nentries' = nentries + 1
    /\ \E kind \in {"notfile", "unreadable", "file"} :
        /\ result' = IF kind = "notfile" THEN result
                     ELSE [result EXCEPT !.files_scanned = @ + 1]
        /\ lpc' = IF kind = "file" THEN "reading" ELSE "listing"
    /\ UNCHANGED <<ldir, seen, mainvars, fsvars>>

\* lines 68-77: the next line of the open file, of any content
LReadLine ==
    /\ lpc = "reading"
    /\ Len(seen) < MaxLines
    /\ \E line \in LinePool :
        /\ result' = ProcessLine(result, line)
        /\ seen' = Append(seen, line)
    /\ UNCHANGED <<lpc, ldir, nentries, mainvars, fsvars>>

\* the end of the file, or lines 79-81: a read error, caught
LCloseFile ==
    /\ lpc = "reading"
    /\ lpc' = "listing"
    /\ UNCHANGED <<ldir, result, seen, nentries, mainvars, fsvars>>

\* line 83: the listing is exhausted
LReturn ==
    /\ lpc = "listing"
    /\ lpc' = "returned"
    /\ UNCHANGED <<ldir, result, seen, nentries, mainvars, fsvars>>

NextLogs == LCall \/ LNextEntry \/ LReadLine \/ LCloseFile \/ LReturn

SpecLogs == InitLogs /\ [][NextLogs]_vars

\* ---------------------------------- generate_report, call after call
\* the arguments of a generate_report call
ReportArgs ==
    {[metrics |-> [x \in Sections |-> Usage(Num(v))],
      evals |-> [k \in {"cpu_status", "memory_status", "disk_status"} |-> st]] :
        <<v, st>> \in {<<100, "OK">>, <<950, "WARN">>}}

InitPersist ==
    /\ host = [x \in {} |-> NoKey]
    /\ cfg = [cpu_warn |-> 800, mem_warn |-> 800, disk_warn |-> 900, critical |-> "none"]
    /\ logenv = [path |-> "logs", dir |-> "absent", entries |-> << >>]
    /\ prev_exit = None
    /\ RunStart
    /\ LogIdle
    /\ dir_exists \in BOOLEAN
    /\ files = [f \in {} |-> 0]
    /\ clock = 0
    /\ written = << >>

\* one generate_report call into the output directory
Persist ==
    /\ Len(written) < MaxCalls
    /\ \E a \in ReportArgs :
        LET g == generate_report(files, clock, a.metrics, InitResult("logs"),
                                 [cpu_warn |-> 800, mem_warn |-> 800, disk_warn |-> 900],
                                 a.evals)
        IN /\ dir_exists' = g.dir_exists
           /\ files' = g.files
           /\ written' = Append(written, <<g.path, g.report>>)
    /\ UNCHANGED <<clock, mainvars, logvars>>

\* time passes
Tick ==
    /\ clock < MaxClock
    /\ clock' = clock + 1
    /\ UNCHANGED <<dir_exists, files, written, mainvars, logvars>>

NextPersist == Persist \/ Tick

SpecPersist == InitPersist /\ [][NextPersist]_vars

\* ================================================================= claims
StatusKey(r) == CASE r = "cpu" -> "cpu_status"
                  [] r = "memory" -> "memory_status"
                  [] r = "disk" -> "disk_status"

WarnOf(r) == CASE r = "cpu" -> args.cpu_warn
               [] r = "memory" -> args.mem_warn
               [] r = "disk" -> args.disk_warn

Evaluated == DOMAIN evaluations # {}

StatusOf(r) == GetStr(evaluations, StatusKey(r))

\* the exit code the statuses call for: 2 on a missing or critical
\* resource, else 1 on a warning, else 0
ResolvedExit ==
    IF \E r \in Sections : StatusOf(r) \in {"UNKNOWN", "N/A", "CRITICAL"} THEN 2
    ELSE IF \E r \in Sections : StatusOf(r) = "WARN" THEN 1
    ELSE 0

\* C1: a run of main without --json-only returns 2 if a resource is UNKNOWN
\* or CRITICAL, else 1 if any one of cpu, memory, disk is WARN, else 0.
C1_ExitCodeFollowsStatuses ==
    (pc = "done" /\ Evaluated /\ ~args.json_only) => exit_code = Some(ResolvedExit)

\* C2: two runs on the same metrics and thresholds return the same exit
\* code, whatever --json-only and --quiet are.
C2_ExitCodeIgnoresFlags ==
    (pc = "done" /\ prev_exit # None) => exit_code = prev_exit

\* C3: for a present value v and warn threshold w the status is WARN exactly
\* when v >= w and OK exactly when v < w, and it is never CRITICAL.
C3_WarnIffAtLeastThreshold ==
    Evaluated =>
        \A r \in Sections :
            percents[r] # None =>
                /\ (StatusOf(r) = "WARN") <=> (percents[r][1] >= WarnOf(r))
                /\ (StatusOf(r) = "OK") <=> (percents[r][1] < WarnOf(r))
                /\ StatusOf(r) # "CRITICAL"

C3_Witness ==
    /\ pc = "done"
    /\ percents.cpu = Some(800) /\ args.cpu_warn = 800 /\ StatusOf("cpu") = "WARN"
    /\ percents.disk = Some(100) /\ args.disk_warn = 800 /\ StatusOf("disk") = "OK"

\* strings float() converts
NumericStrings == {"80.0", "95"}

\* the host has no usable usage value for resource r
AbsentOnHost(r) ==
    \/ r \notin DOMAIN host
    \/ /\ r \in DOMAIN host
       /\ \/ host[r].kind # "dict"
          \/ ~host[r].has
          \/ host[r].val.t \in {"none", "obj"}
          \/ host[r].val.t = "str" /\ host[r].val.s \notin NumericStrings

SummaryLines == {i \in 1..Len(stdout) : stdout[i].tag = "summary"}

\* the report of this run is in its file and records status st for r
Persisted(r, st, all) ==
    /\ report_path # None
    /\ report_path[1] \in DOMAIN files
    /\ files[report_path[1]].evaluations[StatusKey(r)] = st
    /\ \A k \in DOMAIN files[report_path[1]].evaluations :
          files[report_path[1]].evaluations[k] \in all

AbsentHandled(st, all) ==
    \A r \in Sections :
        AbsentOnHost(r) =>
            /\ pc = "crashed" => logenv.dir = "unlistable"
            /\ pc \in {"output", "done"} /\ cfg.critical = "none" => Persisted(r, st, all)
            /\ \A i \in SummaryLines : stdout[i][r].na /\ stdout[i][StatusKey(r)] = st

CriticalValue == 90 * 10

\* C5: with a critical threshold given for a resource whose usage is at or
\* above it, the resource's status is CRITICAL and the exit code is 2.
C5_CriticalThresholdYieldsCritical ==
    \A r \in Sections :
        (/\ pc = "done"
         /\ cfg.critical = r
         /\ _get_usage_percent(host, r) # None
         /\ _get_usage_percent(host, r)[1] >= CriticalValue)
        => (StatusOf(r) = "CRITICAL" /\ exit_code = Some(2))

\* C6: n generate_report calls into one directory leave n distinct files,
\* each holding the report its own call wrote.
C6_EveryCallLeavesItsOwnFile ==
    /\ Cardinality(DOMAIN files) = Len(written)
    /\ \A i \in 1..Len(written) :
          written[i][1] \in DOMAIN files /\ files[written[i][1]] = written[i][2]

\* C7: a warn threshold outside [0,100] ends the run with exit code 2 before
\* any metric is sampled, any log scanned or any report written.
C7_OutOfRangeThresholdRejected ==
    (\E w \in {cfg.cpu_warn, cfg.mem_warn, cfg.disk_warn} : w < 0 \/ w > 1000) =>
        /\ system_metrics = None
        /\ log_analysis = None
        /\ DOMAIN files = {}
        /\ pc = "done" => exit_code = Some(2)

RECURSIVE SumOver(_, _)
SumOver(f, keys) ==
    IF keys = {} THEN 0
    ELSE LET k == CHOOSE x \in keys : TRUE IN f[k] + SumOver(f, keys \ {k})

\* C8: the total main computes and prints as "Log Issues" is the sum of the
\* values of the analysis's problem_counts.
C8_TotalIsSumOfCounts ==
    log_analysis # None =>
        /\ total_matches = SumOver(log_analysis[1].problem_counts,
                                   DOMAIN log_analysis[1].problem_counts)
        /\ \A i \in SummaryLines : stdout[i].log_issues = total_matches

\* C9: analyze_logs never fails because of the directory: absent or
\* unreadable, it returns with no file scanned and nothing counted.
C9_DirectoryNeverFails ==
    /\ lpc # "raised"
    /\ (lpc = "returned" /\ ldir \in {"absent", "unlistable"}) =>
          /\ result.files_scanned = 0
          /\ result.logs_dir = "logs"
          /\ \A p \in PatternSet : result.problem_counts[p] = 0 /\ result.examples[p] = << >>

\* the trimmed lines read so far that contain keyword k, in order
RECURSIVE Matching(_, _)
Matching(k, lines) ==
    IF lines = << >> THEN << >>
    ELSE LET rest == Matching(k, SubSeq(lines, 1, Len(lines) - 1))
             last == Strip(lines[Len(lines)])
         IN IF Contains(k, last) THEN Append(rest, last) ELSE rest

Min(a, b) == IF a < b THEN a ELSE b

\* C10: after every line, problem_counts and examples have the pattern set
\* as keys; each keyword's count is the number of lines read that contain it
\* (one per line, for every keyword of the line) and its examples are the
\* first min(3, count) such lines, trimmed, in the order read.
C10_CountsAndExamples ==
    /\ DOMAIN result.problem_counts = PatternSet
    /\ DOMAIN result.examples = PatternSet
    /\ \A k \in PatternSet :
          LET m == Matching(k, seen)
          IN /\ result.problem_counts[k] = Len(m)
             /\ result.examples[k] = SubSeq(m, 1, Min(3, result.problem_counts[k]))

C10_Witness ==
    /\ lpc = "returned"
    /\ result.problem_counts[<<"W","A","R","N">>] = 4
    /\ Len(result.examples[<<"W","A","R","N">>]) = 3
    /\ result.problem_counts[<<"W","A","R","N","I","N","G">>] \in 1..3
    /\ result.files_scanned = 2

====
